---- MODULE Spec2Model ----
(***************************************************************************)
(* Model of forge_sdk.ForgeClient (src/src/forge_sdk/cleint.py): client    *)
(* construction and the submit-then-poll loop of ForgeClient.complete.     *)
(* Time is an integer clock; a network call takes 0..MaxNetDelay units,    *)
(* time.sleep(s) takes s..s+MaxOversleep units.                            *)
(***************************************************************************)
EXTENDS Integers, Sequences, FiniteSets, TLC

\* ---- bounds of the model ----
MaxTimeout == 3
MaxPollInterval == 1
MaxRetriesArg == 2
MaxPolls == 3
MaxNetDelay == 1
MaxOversleep == 1

\* ---- values ----
None == "None"
ArgKeys == {None, "k1"}
EnvKeys == {None, "k1"}
BaseUrls == {<<"h">>, <<"h", "/">>}
SpeedArgs == {"MEDIUM", "turbo"}
TaskIds == {"t1", "t2"}
Absent == "ABSENT"
Outputs == {"hi", "bye"}
TerminalStatuses == {"succeeded", "failed", "cancelled"}
ServerStatuses == {"running", Absent} \cup TerminalStatuses
\* JSON objects a poll can return, with or without metadata.status
PollBodies == [shape : {"object"}, status : ServerStatuses, output : Outputs]
NoBody == [shape |-> None, status |-> None, output |-> None]

VARIABLES
  clientState,   \* "none" | "ready" | "authfail"
  ctorExc,       \* exception raised by __init__
  noCredential,  \* no key was passed to __init__ and none is in the environment
  api_key, base_url, headers,
  pc,            \* "idle" | "polling" (at the loop head) | "done"
  now,           \* time.time(), measured from the entry of the current call
  timeout, poll_interval, max_retries,
  payload, task_id, start_time, retries,
  result,        \* the ForgeResponse returned by the call
  exc,           \* the exception raised by the call
  posts,         \* POST requests issued by the call
  submitReply,   \* how the POST ended: "fail", "notask", "ok" (None: not sent)
  replyTaskId,   \* the task id the server's reply to the POST carried
  polled,        \* URLs the call has issued a GET to
  nPolls,        \* GET requests issued by the call
  nFail,         \* polls of the call that raised a RequestException
  failsSinceOk,  \* failed polls since the latest successful poll of the call
  lastOutcome,   \* the latest poll: "fail", "malformed" or the status it carried
  issuedLate,    \* some poll of the call was issued at elapsed >= timeout
  terminalBody,  \* the raw body of the poll that carried a terminal status
  onlyUnknown,   \* every poll of the call so far succeeded without metadata.status
  lastSleep,     \* the argument of time.sleep in the latest iteration (-1: none)
  submitDoneAt,  \* the clock reading at which the POST of the call returned
  issuedPastDeadline, \* some poll was issued at now - submitDoneAt >= timeout
  afterDirty     \* an earlier call of this client ended with retries > 0 or timed out

vars == <<clientState, ctorExc, noCredential, api_key, base_url, headers,
          pc, now, timeout, poll_interval, max_retries, payload,
          task_id, start_time, retries, result, exc, posts, submitReply, replyTaskId, polled,
          nPolls, nFail, failsSinceOk, lastOutcome, issuedLate, terminalBody,
          onlyUnknown, lastSleep, submitDoneAt, issuedPastDeadline, afterDirty>>

clientVars == <<clientState, ctorExc, noCredential, api_key, base_url, headers>>
argVars == <<timeout, poll_interval, max_retries, payload>>

\* ---- exceptions ----
NoExc == [type |-> "none", msg |-> "", arg |-> 0]
Exc(t, m, a) == [type |-> t, msg |-> m, arg |-> a]
\* the class each exception class derives from
BaseOf(t) ==
  CASE t = "ForgeError" -> "Exception"
    [] t = "ForgeTimeoutError" -> "ForgeError"
    [] t = "ForgeAuthError" -> "ForgeError"
    [] OTHER -> "Exception"
IsForgeError(t) == t = "ForgeError" \/ BaseOf(t) = "ForgeError"
\* the exceptions complete() raises itself
SubmitError == Exc("ForgeError", "Failed to start completion", 0)
PollingError(m) == Exc("ForgeError", "Polling failed after", m)
\* the timeout reported with the generic class
TimeoutErrorAsGeneric(t) == Exc("ForgeError", "Completion timed out after", t)
TimeoutError(t) == Exc("ForgeTimeoutError", "Completion timed out after", t)
\* the exception __init__ raises
AuthError == Exc("ForgeAuthError", "No API key provided", 0)

\* ---- ForgeResponse ----
NoResult == [task_id |-> None, status |-> None, result |-> NoBody, completion_time |-> -1]
\* the payload stored without its metadata
ForgeResponseNoMetadata(id, st, body, ct) ==
  [task_id |-> id, status |-> st, result |-> [body EXCEPT !.status = Absent],
   completion_time |-> ct]
ForgeResponse(id, st, body, ct) ==
  [task_id |-> id, status |-> st, result |-> body, completion_time |-> ct]
succeeded(r) == r.status = "succeeded"
\* "cancelled" not counted as a failure
failedOnly(r) == r.status = "failed"
failed(r) == r.status \in {"failed", "cancelled"}

\* ---- __init__ ----
\* the credential check left out
TruthyAlways(s) == TRUE
Truthy(s) == s # None /\ s # ""
ResolveKey(k, e) == IF Truthy(k) THEN k ELSE e
RECURSIVE RStrip(_)
RStrip(u) == IF u # <<>> /\ u[Len(u)] = "/" THEN RStrip(SubSeq(u, 1, Len(u) - 1)) ELSE u
MakeHeaders(k) == [Authorization |-> <<"Bearer", k>>, ContentType |-> "application/json"]
NoHeaders == [Authorization |-> <<>>, ContentType |-> None]

Init ==
  /\ clientState = "none" /\ ctorExc = NoExc
  /\ noCredential = FALSE
  /\ api_key = None /\ base_url = <<>> /\ headers = NoHeaders
  /\ pc = "idle" /\ now = 0
  /\ timeout = 0 /\ poll_interval = 0 /\ max_retries = 0
  /\ payload = None /\ task_id = None /\ start_time = 0 /\ retries = 0
  /\ result = NoResult /\ exc = NoExc
  /\ posts = 0 /\ submitReply = None /\ replyTaskId = None
  /\ polled = {} /\ nPolls = 0 /\ nFail = 0 /\ failsSinceOk = 0
  /\ lastOutcome = None /\ issuedLate = FALSE /\ terminalBody = NoBody
  /\ onlyUnknown = TRUE /\ lastSleep = -1 /\ submitDoneAt = 0
  /\ issuedPastDeadline = FALSE /\ afterDirty = FALSE

callVars == <<pc, now, timeout, poll_interval, max_retries, payload,
              task_id, start_time, retries, result, exc, posts, submitReply, replyTaskId,
              polled, nPolls, nFail, failsSinceOk, lastOutcome, issuedLate, terminalBody,
              onlyUnknown, lastSleep, submitDoneAt, issuedPastDeadline, afterDirty>>

Construct(k, e, u) ==
  /\ clientState = "none"
  /\ noCredential' = (k = None /\ e = None)
  /\ api_key' = ResolveKey(k, e)
  /\ IF ~Truthy(api_key')
       THEN /\ clientState' = "authfail"
            /\ ctorExc' = AuthError
            /\ UNCHANGED <<base_url, headers>>
       ELSE /\ clientState' = "ready"
            /\ ctorExc' = NoExc
            /\ base_url' = RStrip(u)
            /\ headers' = MakeHeaders(api_key')
  /\ UNCHANGED callVars

\* ---- complete(): argument handling and submission ----
\* str.lower() on the speed names the callers pass
Lower(s) ==
  CASE s = "MEDIUM" -> "medium"
    [] s = "FAST" -> "fast"
    [] s = "SLOW" -> "slow"
    [] OTHER -> s
ReasoningSpeed == {"fast", "medium", "slow"}
CompletionUrl(base) == base \o <<"/asyncplanner/completions">>
PollUrl(base, id) == CompletionUrl(base) \o <<"/", id>>

CanCall == clientState = "ready" /\ pc = "idle"

\* entry of complete(): the arguments are bound, nothing of an earlier call remains
Enter(speed, t, p, m) ==
  /\ CanCall
  /\ timeout' = t /\ poll_interval' = p /\ max_retries' = m
  /\ result' = NoResult
  /\ polled' = {} /\ nPolls' = 0 /\ nFail' = 0 /\ failsSinceOk' = 0
  /\ lastOutcome' = None /\ issuedLate' = FALSE /\ terminalBody' = NoBody
  /\ onlyUnknown' = TRUE /\ lastSleep' = -1 /\ issuedPastDeadline' = FALSE
  /\ UNCHANGED <<clientVars, afterDirty>>

\* ReasoningSpeed(reasoning_speed.lower()) rejects the value: ValueError
CompleteBadSpeed(speed, t, p, m) ==
  /\ Enter(speed, t, p, m)
  /\ Lower(speed) \notin ReasoningSpeed
  /\ exc' = Exc("ValueError", "not a valid ReasoningSpeed", 0)
  /\ pc' = "done" /\ posts' = 0 /\ payload' = None
  /\ submitReply' = None /\ replyTaskId' = None
  /\ task_id' = None
  /\ UNCHANGED <<now, start_time, retries, submitDoneAt>>

\* the failed POST sent a second time before giving up
CompleteSubmitFailRetried(speed, t, p, m, d) ==
  /\ Enter(speed, t, p, m)
  /\ Lower(speed) \in ReasoningSpeed
  /\ payload' = Lower(speed) /\ posts' = 2
  /\ submitReply' = "fail" /\ replyTaskId' = None
  /\ now' = now + d + d
  /\ exc' = SubmitError
  /\ pc' = "done"
  /\ task_id' = None
  /\ UNCHANGED <<start_time, retries, submitDoneAt>>

\* the POST raises a RequestException (connection error, non-2xx status)
CompleteSubmitFail(speed, t, p, m, d) ==
  /\ Enter(speed, t, p, m)
  /\ Lower(speed) \in ReasoningSpeed
  /\ payload' = Lower(speed) /\ posts' = 1
  /\ submitReply' = "fail" /\ replyTaskId' = None
  /\ now' = now + d
  /\ exc' = SubmitError
  /\ pc' = "done"
  /\ task_id' = None
  /\ UNCHANGED <<start_time, retries, submitDoneAt>>

\* the POST gets a 2xx JSON body without "task_id": KeyError, not caught
CompleteSubmitNoTaskId(speed, t, p, m, d) ==
  /\ Enter(speed, t, p, m)
  /\ Lower(speed) \in ReasoningSpeed
  /\ payload' = Lower(speed) /\ posts' = 1
  /\ submitReply' = "notask" /\ replyTaskId' = None
  /\ now' = now + d
  /\ exc' = Exc("KeyError", "task_id", 0)
  /\ pc' = "done"
  /\ task_id' = None
  /\ UNCHANGED <<start_time, retries, submitDoneAt>>

\* the counter carried over from the loop of the call before
InitialRetriesKept(r) == r
\* retries = 0 before the loop
InitialRetries(r) == 0

\* the POST succeeds: the poll loop is entered
CompleteSubmitOk(speed, t, p, m, d, id) ==
  /\ Enter(speed, t, p, m)
  /\ Lower(speed) \in ReasoningSpeed
  /\ payload' = Lower(speed) /\ posts' = 1
  /\ submitReply' = "ok" /\ replyTaskId' = id
  /\ now' = now + d
  /\ submitDoneAt' = now'
  /\ task_id' = id
  /\ start_time' = now'
  /\ retries' = InitialRetries(retries)
  /\ exc' = NoExc
  /\ pc' = "polling"

\* ---- complete(): the poll loop ----
\* start_time taken anew at every evaluation of the loop condition
ElapsedSinceIteration == now - now
Elapsed == now - start_time
\* the loop entered once more when elapsed equals the timeout
LoopCondInclusive(elapsed, t) == elapsed <= t
LoopCond(elapsed, t) == elapsed < t
\* a reply without metadata.status taken for a failure
ExtractStatusDefaultFailed(body) ==
  IF body.status = Absent THEN "failed" ELSE body.status
ExtractStatus(body) == IF body.status = Absent THEN "unknown" ELSE body.status
IsTerminal(status) == status \in {"succeeded", "failed", "cancelled"}
\* the sleep between polls skipped
PollSleepNone(p) == 0
\* the sleep between polls taken twice
PollSleepTwice(p) == p + p
PollSleep(p) == p
\* the pause after a failed poll taken from poll_interval
RetrySleepAsInterval == poll_interval
RetrySleep == 1
\* the counter not reset by a successful poll
RetriesKept(r) == r
RetriesAfterOk(r) == 0
RetriesAfterFail(r) == r + 1
\* one failure more than max_retries tolerated
RetriesExhaustedOffByOne(r, m) == r > m
RetriesExhausted(r, m) == r >= m

\* a GET is issued at the loop head: the loop condition held
IssuePoll ==
  /\ pc = "polling"
  /\ LoopCond(Elapsed, timeout)
  /\ nPolls < MaxPolls
  /\ nPolls' = nPolls + 1
  /\ polled' = polled \cup {PollUrl(base_url, task_id)}
  /\ issuedLate' = (issuedLate \/ Elapsed >= timeout)
  /\ issuedPastDeadline' = (issuedPastDeadline \/ now - submitDoneAt >= timeout)
  /\ UNCHANGED <<clientVars, argVars, task_id, start_time, posts, submitReply,
                 replyTaskId, submitDoneAt, afterDirty>>

\* the loop condition fails: ForgeTimeoutError
TimeoutExit ==
  /\ pc = "polling"
  /\ ~LoopCond(Elapsed, timeout)
  /\ exc' = TimeoutError(timeout)
  /\ pc' = "done"
  /\ UNCHANGED <<clientVars, argVars, now, task_id, start_time, retries,
                 result, posts, submitReply, replyTaskId, polled, nPolls,
                 nFail, failsSinceOk,
                 lastOutcome, issuedLate, terminalBody, onlyUnknown, lastSleep,
                 submitDoneAt, issuedPastDeadline, afterDirty>>

\* the timeout checked once more when the terminal reply arrives
PollTerminalChecked(body, d) ==
  /\ IssuePoll
  /\ IsTerminal(ExtractStatus(body))
  /\ now' = now + d
  /\ terminalBody' = body
  /\ lastOutcome' = ExtractStatus(body)
  /\ failsSinceOk' = 0
  /\ IF now' - start_time >= timeout
       THEN result' = NoResult /\ exc' = TimeoutError(timeout)
       ELSE /\ result' = ForgeResponse(task_id, ExtractStatus(body), body,
                                       now' - start_time)
            /\ exc' = exc
  /\ pc' = "done"
  /\ onlyUnknown' = (onlyUnknown /\ body.status = Absent) /\ lastSleep' = -1
  /\ UNCHANGED <<retries, nFail>>

\* the poll succeeds with a terminal status: the ForgeResponse is returned
PollTerminal(body, d) ==
  /\ IssuePoll
  /\ IsTerminal(ExtractStatus(body))
  /\ now' = now + d
  /\ terminalBody' = body
  /\ lastOutcome' = ExtractStatus(body)
  /\ failsSinceOk' = 0
  /\ result' = ForgeResponse(task_id, ExtractStatus(body), body, now' - start_time)
  /\ pc' = "done"
  /\ onlyUnknown' = (onlyUnknown /\ body.status = Absent) /\ lastSleep' = -1
  /\ UNCHANGED <<retries, exc, nFail>>

\* the poll succeeds with another status: sleep poll_interval, reset retries
PollPending(body, d, j) ==
  /\ IssuePoll
  /\ ~IsTerminal(ExtractStatus(body))
  /\ lastOutcome' = ExtractStatus(body)
  /\ failsSinceOk' = 0
  /\ onlyUnknown' = (onlyUnknown /\ body.status = Absent)
  /\ lastSleep' = PollSleep(poll_interval)
  /\ now' = now + d + PollSleep(poll_interval) + j
  /\ retries' = RetriesAfterOk(retries)
  /\ UNCHANGED <<pc, result, exc, nFail, terminalBody>>

\* the poll succeeds with a body whose metadata is not a mapping:
\* result.get("metadata", {}).get raises AttributeError, not caught
PollMalformed(d) ==
  /\ IssuePoll
  /\ now' = now + d
  /\ lastOutcome' = "malformed"
  /\ failsSinceOk' = 0
  /\ exc' = Exc("AttributeError", "get", 0)
  /\ onlyUnknown' = FALSE /\ lastSleep' = -1
  /\ pc' = "done"
  /\ UNCHANGED <<retries, result, nFail, terminalBody>>

\* the poll raises a RequestException and retries remain: sleep 1
PollFailRetry(d, j) ==
  /\ IssuePoll
  /\ ~RetriesExhausted(RetriesAfterFail(retries), max_retries)
  /\ retries' = RetriesAfterFail(retries)
  /\ lastOutcome' = "fail"
  /\ nFail' = nFail + 1 /\ failsSinceOk' = failsSinceOk + 1
  /\ onlyUnknown' = FALSE /\ lastSleep' = RetrySleep
  /\ now' = now + d + RetrySleep + j
  /\ UNCHANGED <<pc, result, exc, terminalBody>>

\* the poll raises a RequestException and the retries are used up: ForgeError
PollFailExhausted(d) ==
  /\ IssuePoll
  /\ RetriesExhausted(RetriesAfterFail(retries), max_retries)
  /\ retries' = RetriesAfterFail(retries)
  /\ lastOutcome' = "fail"
  /\ nFail' = nFail + 1 /\ failsSinceOk' = failsSinceOk + 1
  /\ now' = now + d
  /\ exc' = PollingError(max_retries)
  /\ pc' = "done"
  /\ onlyUnknown' = FALSE /\ lastSleep' = -1
  /\ UNCHANGED <<result, terminalBody>>

\* the call has returned or raised; the caller takes the outcome and the
\* call's frame (arguments, locals) is gone; retries and start_time keep
\* what the loop left in them until a later call assigns them
Return ==
  /\ clientState = "ready" /\ pc = "done"
  /\ pc' = "idle" /\ now' = 0
  /\ timeout' = 0 /\ poll_interval' = 0 /\ max_retries' = 0
  /\ payload' = None /\ task_id' = None
  /\ result' = NoResult /\ exc' = NoExc
  /\ afterDirty' = (afterDirty \/ retries > 0 \/ exc.type = "ForgeTimeoutError")
  /\ posts' = 0 /\ submitReply' = None /\ replyTaskId' = None
  /\ polled' = {} /\ nPolls' = 0 /\ nFail' = 0 /\ failsSinceOk' = 0
  /\ lastOutcome' = None /\ issuedLate' = FALSE /\ terminalBody' = NoBody
  /\ onlyUnknown' = TRUE /\ lastSleep' = -1 /\ issuedPastDeadline' = FALSE
  /\ submitDoneAt' = 0
  /\ UNCHANGED <<clientVars, start_time, retries>>

Timeouts == 0..MaxTimeout
PollIntervals == 0..MaxPollInterval
RetryArgs == 0..MaxRetriesArg
NetDelays == 0..MaxNetDelay
Oversleeps == 0..MaxOversleep

Next ==
  \/ \E k \in ArgKeys, e \in EnvKeys, u \in BaseUrls : Construct(k, e, u)
  \/ \E s \in SpeedArgs, t \in Timeouts, p \in PollIntervals, m \in RetryArgs :
       CompleteBadSpeed(s, t, p, m)
  \/ \E s \in SpeedArgs, t \in Timeouts, p \in PollIntervals, m \in RetryArgs,
        d \in NetDelays : CompleteSubmitFail(s, t, p, m, d)
  \/ \E s \in SpeedArgs, t \in Timeouts, p \in PollIntervals, m \in RetryArgs,
        d \in NetDelays : CompleteSubmitNoTaskId(s, t, p, m, d)
  \/ \E s \in SpeedArgs, t \in Timeouts, p \in PollIntervals, m \in RetryArgs,
        d \in NetDelays, id \in TaskIds : CompleteSubmitOk(s, t, p, m, d, id)
  \/ TimeoutExit
  \/ \E b \in PollBodies, d \in NetDelays : PollTerminal(b, d)
  \/ \E b \in PollBodies, d \in NetDelays, j \in Oversleeps : PollPending(b, d, j)
  \/ \E d \in NetDelays : PollMalformed(d)
  \/ \E d \in NetDelays, j \in Oversleeps : PollFailRetry(d, j)
  \/ \E d \in NetDelays : PollFailExhausted(d)
  \/ Return

Spec == Init /\ [][Next]_vars

\* ---- the loop under a clock that keeps advancing ----
\* an iteration that goes back to the loop head has taken time
Advance == (pc = "polling" /\ pc' = "polling") => now' > now
\* the caller's steps: construction, a call up to its loop, taking the outcome
CallStep ==
  \/ \E k \in ArgKeys, e \in EnvKeys, u \in BaseUrls : Construct(k, e, u)
  \/ \E s \in SpeedArgs, t \in Timeouts, p \in PollIntervals, m \in RetryArgs :
       CompleteBadSpeed(s, t, p, m)
  \/ \E s \in SpeedArgs, t \in Timeouts, p \in PollIntervals, m \in RetryArgs,
        d \in NetDelays : CompleteSubmitFail(s, t, p, m, d)
  \/ \E s \in SpeedArgs, t \in Timeouts, p \in PollIntervals, m \in RetryArgs,
        d \in NetDelays : CompleteSubmitNoTaskId(s, t, p, m, d)
  \/ \E s \in SpeedArgs, t \in Timeouts, p \in PollIntervals, m \in RetryArgs,
        d \in NetDelays, id \in TaskIds : CompleteSubmitOk(s, t, p, m, d, id)
  \/ Return
\* one iteration of the poll loop
LoopStep ==
  \/ TimeoutExit
  \/ \E b \in PollBodies, d \in NetDelays : PollTerminal(b, d)
  \/ \E b \in PollBodies, d \in NetDelays, j \in Oversleeps :
       PollPending(b, d, j) /\ Advance
  \/ \E d \in NetDelays : PollMalformed(d)
  \/ \E d \in NetDelays, j \in Oversleeps : PollFailRetry(d, j) /\ Advance
  \/ \E d \in NetDelays : PollFailExhausted(d)
NextLive == CallStep \/ LoopStep
\* the thread running complete() keeps running: every network call returns
\* or fails, every sleep ends
SpecLive == Init /\ [][NextLive]_vars /\ WF_vars(LoopStep)

\* ---------------------------------------------------------------------
\* Properties
\* ---------------------------------------------------------------------
Returned == pc = "done" /\ result # NoResult
SawTerminal == lastOutcome \in TerminalStatuses

\* C1: a poll that carries a terminal status ends the call at once with a
\* result of that status and no exception; a result is returned at no other
\* poll; and when every earlier poll succeeded with a non-terminal status,
\* the result's completion_time is at least (earlier polls) * poll_interval.
InvC1 ==
  /\ SawTerminal => /\ Returned
                    /\ exc = NoExc
                    /\ result.status = lastOutcome
  /\ result # NoResult => pc = "done" /\ SawTerminal
  /\ (SawTerminal /\ nFail = 0) =>
        result.completion_time >= (nPolls - 1) * poll_interval

\* three polls, the first two pending, the third terminal, no time lost
WitC1 ==
  /\ Returned /\ nPolls = 3 /\ nFail = 0 /\ poll_interval = 1
  /\ result.completion_time = 2

\* C2 as stated (for max_retries >= 1): when every poll of a call failed,
\* the call ends with the generic ForgeError after exactly max_retries polls.
CexC2 ==
  (pc = "done" /\ max_retries >= 1 /\ nPolls > 0 /\ nFail = nPolls) =>
     (exc.type = "ForgeError" /\ nPolls = max_retries)

\* C2 amended: when every poll of a call failed, no result is returned and
\* the call ends either with the polling ForgeError, exactly when the failed
\* polls number max(max_retries, 1), or with the timeout error, after fewer
\* polls, the elapsed time having reached the timeout; while the call is
\* still polling fewer than max(max_retries, 1) polls have failed.
ThmC2 ==
  LET budget == IF max_retries >= 1 THEN max_retries ELSE 1 IN
  /\ (pc = "done" /\ nPolls > 0 /\ nFail = nPolls) =>
        /\ result = NoResult
        /\ \/ /\ exc = [type |-> "ForgeError", msg |-> "Polling failed after",
                        arg |-> max_retries]
              /\ nPolls = budget
           \/ /\ exc.type = "ForgeTimeoutError"
              /\ nPolls < budget
              /\ Elapsed >= timeout
  /\ (pc = "polling" /\ nFail = nPolls) => nPolls < budget

\* two polls, both failed, max_retries = 2: the polling ForgeError
WitC2 ==
  /\ pc = "done" /\ max_retries = 2 /\ nPolls = 2 /\ nFail = 2
  /\ exc.type = "ForgeError"

\* C3 as stated (for well-formed replies and max_retries >= 1): a call that
\* ended with no terminal status seen and the elapsed time at or past the
\* timeout ended with the timeout error.
CexC3 ==
  (/\ pc = "done" /\ submitReply = "ok" /\ max_retries >= 1
   /\ ~SawTerminal /\ lastOutcome # "malformed"
   /\ Elapsed >= timeout) =>
     (exc.type = "ForgeTimeoutError" /\ result = NoResult)

\* C3 amended: a call in which no poll reported a terminal status never
\* returns a result; whenever the loop condition is evaluated with the
\* elapsed time at or past the timeout the call raises ForgeTimeoutError
\* naming the configured timeout, and it raises it in no other situation.
ThmC3 ==
  /\ [](/\ (submitReply = "ok" /\ ~SawTerminal) => result = NoResult
        /\ exc.type = "ForgeTimeoutError" =>
              /\ pc = "done" /\ result = NoResult /\ ~SawTerminal
              /\ exc.arg = timeout /\ Elapsed >= timeout)
  /\ [][(pc = "polling" /\ Elapsed >= timeout) =>
          (/\ pc' = "done" /\ result' = NoResult
           /\ exc' = [type |-> "ForgeTimeoutError",
                      msg |-> "Completion timed out after", arg |-> timeout])]_vars

\* timeout = 2 * poll_interval, two polls both "running": the timeout error
WitC3 ==
  /\ pc = "done" /\ timeout = 2 /\ poll_interval = 1
  /\ nPolls = 2 /\ nFail = 0 /\ lastOutcome = "running"
  /\ exc.type = "ForgeTimeoutError" /\ exc.arg = 2

\* C4: a poll reporting "failed" or "cancelled" raises nothing and returns a
\* result with failed true and succeeded false; "succeeded" returns one with
\* succeeded true and failed false; every returned result has exactly one.
InvC4 ==
  /\ lastOutcome \in {"failed", "cancelled"} =>
        /\ Returned /\ exc = NoExc
        /\ failed(result) /\ ~succeeded(result)
  /\ lastOutcome = "succeeded" =>
        /\ Returned /\ exc = NoExc
        /\ succeeded(result) /\ ~failed(result)
  /\ result # NoResult => (succeeded(result) # failed(result))

WitC4 == Returned /\ lastOutcome = "cancelled" /\ result.status = "cancelled"

\* C5: a call sends at most one POST; a failed POST ends the call at once
\* with the generic ForgeError and without any poll; polls happen only after
\* a POST that succeeded, and only for the task id its reply carried.
InvC5 ==
  /\ posts <= 1
  /\ submitReply = "fail" =>
        /\ pc = "done" /\ posts = 1 /\ result = NoResult
        /\ exc = [type |-> "ForgeError", msg |-> "Failed to start completion",
                  arg |-> 0]
        /\ nPolls = 0 /\ polled = {}
  /\ (nPolls > 0 \/ polled # {}) =>
        /\ submitReply = "ok" /\ posts = 1
        /\ polled = {base_url \o <<"/asyncplanner/completions", "/", replyTaskId>>}

WitC5 == pc = "done" /\ submitReply = "fail" /\ exc.type = "ForgeError"

\* C6 (for calls whose arguments were accepted): every exception that
\* __init__ or complete() raises is ForgeAuthError, ForgeError or
\* ForgeTimeoutError, each an instance of ForgeError.
CexC6 ==
  /\ ctorExc.type # "none" =>
        ctorExc.type = "ForgeAuthError" /\ IsForgeError(ctorExc.type)
  /\ (payload # None /\ exc.type # "none") =>
        /\ exc.type \in {"ForgeError", "ForgeTimeoutError"}
        /\ IsForgeError(exc.type)

\* C7: when no key is passed and none is in the environment, __init__ raises
\* ForgeAuthError, no client exists, and no POST or GET has been or is sent.
InvC7 ==
  noCredential =>
    /\ clientState = "authfail"
    /\ ctorExc = [type |-> "ForgeAuthError", msg |-> "No API key provided",
                  arg |-> 0]
    /\ pc = "idle" /\ posts = 0 /\ nPolls = 0 /\ polled = {}
    /\ submitReply = None

WitC7 == noCredential /\ clientState = "authfail"

\* C8: when a poll's reply carries a terminal status, the returned result
\* has that status, the task id of the POST's reply, and the reply's whole
\* body, unchanged, as its payload.
InvC8 ==
  terminalBody # NoBody =>
    /\ Returned
    /\ result.status = terminalBody.status
    /\ result.task_id = replyTaskId
    /\ result.result = terminalBody

\* the first poll replies {metadata: {status: succeeded}, output: hi}
WitC8 ==
  /\ Returned /\ nPolls = 1 /\ succeeded(result)
  /\ result.result = [shape |-> "object", status |-> "succeeded", output |-> "hi"]
  /\ result.task_id = "t2"

\* C9: every poll is issued at an elapsed time below the timeout; at a loop
\* head where the elapsed time is at or past the timeout no poll follows and
\* the call ends with the timeout error; with timeout = 0 a submitted call
\* ends with no poll and the timeout error.
ThmC9 ==
  /\ [](/\ ~issuedLate
        /\ (pc = "done" /\ submitReply = "ok" /\ timeout = 0) =>
              (nPolls = 0 /\ exc.type = "ForgeTimeoutError"))
  /\ [][(pc = "polling" /\ Elapsed >= timeout) =>
          (/\ nPolls' = nPolls /\ polled' = polled
           /\ pc' = "done" /\ exc'.type = "ForgeTimeoutError")]_vars

WitC9 ==
  /\ pc = "done" /\ submitReply = "ok" /\ timeout = 0
  /\ nPolls = 0 /\ exc.type = "ForgeTimeoutError"

\* C10: at every loop head retries is the number of polls that failed since
\* the latest successful poll (zero right after a successful one) and, for
\* max_retries >= 1, below max_retries; the polling ForgeError is raised
\* only by a failed poll that completes max_retries consecutive failures.
InvC10 ==
  /\ pc = "polling" =>
        /\ retries = failsSinceOk
        /\ lastOutcome \notin {"fail", None} => retries = 0
        /\ max_retries >= 1 => retries < max_retries
  /\ (pc = "done" /\ exc.msg = "Polling failed after") =>
        /\ lastOutcome = "fail"
        /\ failsSinceOk >= max_retries
        /\ max_retries >= 1 => failsSinceOk = max_retries

\* fail, success, fail with max_retries = 2: two failures, still polling
WitC10 ==
  /\ pc = "polling" /\ max_retries = 2 /\ nPolls = 3 /\ nFail = 2
  /\ failsSinceOk = 1 /\ retries = 1

InvC12 ==
  /\ (pc = "polling" /\ lastOutcome = "fail") =>
        /\ lastSleep = 1
        /\ retries = failsSinceOk /\ retries >= 1
  /\ submitReply = "ok" => start_time = submitDoneAt
  /\ ~issuedPastDeadline
  /\ pc = "polling" =>
        now - submitDoneAt >= nFail + (nPolls - nFail) * poll_interval

\* poll_interval = 0: one failed poll and its 1-unit sleep use up timeout = 1
WitC12 ==
  /\ pc = "done" /\ exc.type = "ForgeTimeoutError"
  /\ poll_interval = 0 /\ timeout = 1 /\ max_retries = 2
  /\ nPolls = 1 /\ nFail = 1 /\ lastSleep = 1

\* the state of the call in the terms of the documented state machine
CallState ==
  CASE pc = "idle" -> "NoCall"
    [] pc = "polling" -> "Polling"
    [] pc = "done" /\ result # NoResult /\ succeeded(result) -> "Succeeded"
    [] pc = "done" /\ result # NoResult /\ failed(result) -> "FailedCancelled"
    [] pc = "done" /\ result = NoResult /\ exc.type = "ForgeTimeoutError" -> "TimedOut"
    [] pc = "done" /\ result = NoResult /\ exc.type = "ForgeError" -> "Errored"
    [] OTHER -> "Other"

\* C13 (for calls whose arguments were accepted): a call whose POST did not
\* succeed is Errored with no poll; a call whose POST succeeded is Polling
\* until it is in exactly one of Succeeded, Failed/Cancelled, TimedOut and
\* Errored.
CexC13 ==
  /\ (payload # None /\ submitReply \in {"fail", "notask"}) =>
        CallState = "Errored" /\ nPolls = 0
  /\ submitReply = "ok" =>
        CallState \in {"Polling", "Succeeded", "FailedCancelled", "TimedOut",
                       "Errored"}

\* C15: whatever calls came before, a ready client keeps the key, base URL
\* and headers it was constructed with, the poll loop of every call begins
\* with retries = 0 and start_time the current clock reading, and at every
\* loop head retries and the elapsed time are those of the call's own polls.
InvC15 ==
  /\ clientState = "ready" =>
        /\ api_key = "k1" /\ base_url = <<"h">>
        /\ headers = [Authorization |-> <<"Bearer", "k1">>,
                      ContentType |-> "application/json"]
  /\ (pc = "polling" /\ nPolls = 0) =>
        /\ retries = 0 /\ start_time = now /\ exc = NoExc /\ result = NoResult
  /\ pc = "polling" =>
        /\ retries = failsSinceOk
        /\ start_time = submitDoneAt

\* a call enters its loop after an earlier call ended with failures counted
\* or with the timeout error
WitC15 == afterDirty /\ pc = "polling" /\ nPolls = 0 /\ retries = 0

\* C16: the timeout is looked at only at the loop head. A poll whose reply
\* carries a terminal status returns a result whatever the elapsed time at
\* the reply, completion_time being that elapsed time; a failed poll that
\* uses up the retries raises the polling ForgeError whatever the elapsed
\* time; the timeout error never follows either of them.
InvC16 ==
  LET budget == IF max_retries >= 1 THEN max_retries ELSE 1 IN
  /\ SawTerminal =>
        /\ Returned /\ exc = NoExc
        /\ result.completion_time = Elapsed
  /\ (pc = "done" /\ lastOutcome = "fail" /\ failsSinceOk >= budget) =>
        /\ result = NoResult
        /\ exc = [type |-> "ForgeError", msg |-> "Polling failed after",
                  arg |-> max_retries]
  /\ exc.type = "ForgeTimeoutError" =>
        /\ ~SawTerminal
        /\ lastOutcome = "fail" => failsSinceOk < budget

\* a result returned by a poll whose reply came after the timeout had passed
WitC16 ==
  /\ Returned /\ timeout = 1 /\ result.completion_time >= timeout
  /\ nPolls = 1

\* C17 as stated: when the timeout error is raised the elapsed time is at
\* least timeout and below timeout + (longest poll) + max(poll_interval, 1).
CexC17 ==
  exc.type = "ForgeTimeoutError" =>
    /\ Elapsed >= timeout
    /\ Elapsed < timeout + MaxNetDelay
                   + (IF poll_interval >= 1 THEN poll_interval ELSE 1)

\* C17 amended: when the timeout error is raised the elapsed time is at
\* least timeout and below timeout + (longest poll) + max(poll_interval, 1)
\* + (the longest overshoot of time.sleep).
ThmC17 ==
  exc.type = "ForgeTimeoutError" =>
    /\ Elapsed >= timeout
    /\ Elapsed < timeout + MaxNetDelay
                   + (IF poll_interval >= 1 THEN poll_interval ELSE 1)
                   + MaxOversleep

\* the last iteration began one unit before the timeout and took the
\* longest poll, the sleep of poll_interval and the longest overshoot
WitC17 ==
  /\ pc = "done" /\ exc.type = "ForgeTimeoutError"
  /\ timeout >= 1 /\ poll_interval = 1 /\ lastOutcome = "running"
  /\ Elapsed = timeout - 1 + MaxNetDelay + poll_interval + MaxOversleep

====
